---- MODULE Spec2Model ----
(***************************************************************************)
(* Model of FunctionBase64Conversion<Func>::executeImpl                     *)
(* (src/Functions/FunctionBase64Conversion.h): the batched base64           *)
(* transcoder over a ColumnString, for Func in Base64Encode, Base64Decode,  *)
(* TryBase64Decode.                                                         *)
(*                                                                          *)
(* Bytes are integers 0..255.  Buffers are sequences; the C++ cursors       *)
(* (source, dst_pos) are kept as 0-based offsets from the buffer start, so  *)
(* byte p of a buffer is element p + 1 of the sequence.                     *)
(***************************************************************************)
EXTENDS Integers, Sequences, FiniteSets, TLC

\* ------------------------------------------------------------------ bounds
\* Largest number of rows of an input column.
MaxRows == 3

\* Width of size_t in the model (TLC integers are 32 bit; the wrap-around
\* condition of an unsigned subtraction is the same at any width).
SizeBits == 16

\* Value standing for a byte / offset that was allocated but never written
\* (PODArray::resize does not initialise).
Indeterminate == -1

SizeT(x) == x % (2 ^ SizeBits)

\* ------------------------------------------------ base64 primitives (tb64)
B64Char(i) ==
    IF i < 26 THEN 65 + i
    ELSE IF i < 52 THEN 97 + (i - 26)
    ELSE IF i < 62 THEN 48 + (i - 52)
    ELSE IF i = 62 THEN 43 ELSE 47

B64Val(c) ==
    IF c >= 65 /\ c <= 90 THEN c - 65
    ELSE IF c >= 97 /\ c <= 122 THEN c - 71
    ELSE IF c >= 48 /\ c <= 57 THEN c + 4
    ELSE IF c = 43 THEN 62
    ELSE IF c = 47 THEN 63
    ELSE -1

Pad == 61

RECURSIVE EncBlocks(_)
EncBlocks(s) ==
    IF Len(s) = 0 THEN << >>
    ELSE IF Len(s) = 1 THEN
        << B64Char(s[1] \div 4), B64Char((s[1] % 4) * 16), Pad, Pad >>
    ELSE IF Len(s) = 2 THEN
        << B64Char(s[1] \div 4),
           B64Char((s[1] % 4) * 16 + s[2] \div 16),
           B64Char((s[2] % 16) * 4), Pad >>
    ELSE
        << B64Char(s[1] \div 4),
           B64Char((s[1] % 4) * 16 + s[2] \div 16),
           B64Char((s[2] % 16) * 4 + s[3] \div 64),
           B64Char(s[3] % 64) >> \o EncBlocks(SubSeq(s, 4, Len(s)))

\* _tb64e / tb64senc: bytes written at dst and the returned length.
Tb64e(s) == [outlen |-> Len(EncBlocks(s)), written |-> EncBlocks(s)]

RECURSIVE DecQuads(_)
DecQuads(s) ==
    IF Len(s) = 0 THEN [ok |-> TRUE, bytes |-> << >>]
    ELSE
        LET v1 == B64Val(s[1])
            v2 == B64Val(s[2])
            v3 == B64Val(s[3])
            v4 == B64Val(s[4])
            last == Len(s) = 4
            b1 == v1 * 4 + v2 \div 16
            b2 == (v2 % 16) * 16 + v3 \div 4
            b3 == (v3 % 4) * 64 + v4
        IN  IF v1 >= 0 /\ v2 >= 0 /\ v3 >= 0 /\ v4 >= 0 THEN
                LET r == DecQuads(SubSeq(s, 5, Len(s)))
                IN  [ok |-> r.ok, bytes |-> << b1, b2, b3 >> \o r.bytes]
            ELSE IF last /\ v1 >= 0 /\ v2 >= 0 /\ s[3] = Pad /\ s[4] = Pad THEN
                [ok |-> TRUE, bytes |-> << b1 >>]
            ELSE IF last /\ v1 >= 0 /\ v2 >= 0 /\ v3 >= 0 /\ s[4] = Pad THEN
                [ok |-> TRUE, bytes |-> << b1, b2 >>]
            ELSE [ok |-> FALSE, bytes |-> << >>]

\* _tb64d / tb64sdec: returns 0 on invalid input; the quads decoded before
\* the invalid one have already been stored at dst ("partially polluted").
Tb64d(s) ==
    IF Len(s) = 0 \/ Len(s) % 4 # 0 THEN [outlen |-> 0, written |-> << >>]
    ELSE LET r == DecQuads(s)
         IN  [outlen |-> IF r.ok THEN Len(r.bytes) ELSE 0, written |-> r.bytes]

\* ------------------------------------------------------------ ColumnString
RECURSIVE PackChars(_)
PackChars(rows) ==
    IF Len(rows) = 0 THEN << >>
    ELSE Head(rows) \o << 0 >> \o PackChars(Tail(rows))

RECURSIVE PackOffsets(_, _)
PackOffsets(rows, base) ==
    IF Len(rows) = 0 THEN << >>
    ELSE << base + Len(Head(rows)) + 1 >>
         \o PackOffsets(Tail(rows), base + Len(Head(rows)) + 1)

\* Row i (1-based) of a column: bytes [offsets[i-1], offsets[i] - 1).
RowStart(offs, i) == IF i = 1 THEN 0 ELSE offs[i - 1]
RowOf(chars, offs, i) == SubSeq(chars, RowStart(offs, i) + 1, offs[i] - 1)
RowsOf(chars, offs) == [i \in 1..Len(offs) |-> RowOf(chars, offs, i)]

\* Row contents the input columns are built from.
RowValues ==
    { << >>,
      << 97 >>,                                   \* "a"
      << 97, 98, 99 >>,                           \* "abc"
      << 0, 98 >>,                                \* "\0b"
      << 89, 87, 74, 106 >>,                      \* "YWJj"
      << 89, 81, 61, 61 >>,                       \* "YQ=="
      << 65, 65, 61, 61 >>,                       \* "AA=="  (decodes to "\0")
      << 65 >>,                                   \* "A"     (bad length)
      << 33, 33, 33, 33 >>,                       \* "!!!!"  (bad alphabet)
      << 65, 65, 61, 65 >>,                       \* "AA=A"  (bad padding)
      << 89, 87, 74, 106, 33, 33, 33, 33 >> }     \* "YWJj!!!!"

RECURSIVE SeqsUpTo(_, _)
SeqsUpTo(S, n) ==
    IF n = 0 THEN { << >> }
    ELSE LET shorter == SeqsUpTo(S, n - 1)
         IN  shorter \cup { Append(c, x) : c \in { d \in shorter : Len(d) = n - 1 }, x \in S }

Columns == SeqsUpTo(RowValues, MaxRows)

Modes == { "base64Encode", "base64Decode", "tryBase64Decode" }

\* --------------------------------------------------------- Buffer sizing
\* Rounds the aggregate down, with no partial block per row.
Base64Encode_getBufferSize_NoRounding(string_length, string_count) ==
    SizeT(SizeT((SizeT(string_length - string_count) \div 3) * 4) + string_count)

Base64Encode_getBufferSize(string_length, string_count) ==
    SizeT(SizeT(SizeT(SizeT(string_length - string_count) \div 3 + string_count) * 4) + string_count)

Base64Decode_getBufferSize(string_length, string_count) ==
    SizeT(SizeT(SizeT(SizeT(string_length - string_count) \div 4 + string_count) * 3) + string_count)

TryBase64Decode_getBufferSize(string_length, string_count) ==
    Base64Decode_getBufferSize(string_length, string_count)

getBufferSize(func, string_length, string_count) ==
    IF func = "base64Encode" THEN Base64Encode_getBufferSize(string_length, string_count)
    ELSE IF func = "base64Decode" THEN Base64Decode_getBufferSize(string_length, string_count)
    ELSE TryBase64Decode_getBufferSize(string_length, string_count)

\* ------------------------------------------------------------------ state
VARIABLES
    func,             \* template parameter Func (its name)
    src_chars,        \* input->getChars()
    src_offsets,      \* input->getOffsets()
    input_rows_count,
    pc,               \* "start", "loop", "done", "error"
    reserve,
    dst_data,         \* dst_column->getChars()
    dst_offsets,      \* dst_column->getOffsets()
    source,           \* source - input->getChars().data()
    dst_pos,          \* dst_pos - dst
    src_offset_prev,
    row,
    exception,        \* << >> or << bytes of the message argument >>
    result,           \* << >> or << the column returned >>
    calls,            \* primitive invocations so far: << [row, srclen] >>
    stage,            \* 1: the call on the caller's column; 2: base64Decode on its result
    orig              \* the caller's column of stage 1

vars == << func, src_chars, src_offsets, input_rows_count, pc, reserve, dst_data,
           dst_offsets, source, dst_pos, src_offset_prev, row, exception, result,
           calls, stage, orig >>

Init ==
    /\ func \in Modes
    /\ \E rows \in Columns :
          /\ src_chars = PackChars(rows)
          /\ src_offsets = PackOffsets(rows, 0)
          /\ input_rows_count = Len(rows)
          /\ orig = [chars |-> PackChars(rows), offsets |-> PackOffsets(rows, 0)]
    /\ pc = "start"
    /\ reserve = 0
    /\ dst_data = << >>
    /\ dst_offsets = << >>
    /\ source = 0
    /\ dst_pos = 0
    /\ src_offset_prev = 0
    /\ row = 0
    /\ exception = << >>
    /\ result = << >>
    /\ calls = << >>
    /\ stage = 1

\* --------------------------------------------------------------- helpers
\* The sum of the row lengths without the terminators.
StringLengthArg_NoTerminators(chars, offs) == Len(chars) - Len(offs)

\* First argument of getBufferSize at the call site: input->getChars().size().
StringLengthArg(chars, offs) == Len(chars)

\* Second argument: input->size().
StringCountArg(chars, offs) == Len(offs)

\* Stops one row early.
LoopContinues_OffByOne(r, n) == r + 1 < n

\* for (row = 0; row < input_rows_count; ++row)
LoopContinues(r, n) == r < n

\* Counts the terminator of the row as content.
SrcLen_WithTerminator(offs, r, prev) == SizeT(offs[r + 1] - prev)

\* size_t srclen = src_offsets[row] - src_offset_prev - 1;
SrcLen(offs, r, prev) == SizeT(offs[r + 1] - prev - 1)

\* The srclen bytes at source.
SourceBytes(chars, src, srclen) == SubSeq(chars, src + 1, src + srclen)

\* Reads the message bytes at the start of the buffer, not at source.
ThrownInput_FromBufferStart(chars, src, srclen) == SubSeq(chars, 1, srclen)

\* String(reinterpret_cast<const char *>(source), srclen) of the exception.
ThrownInput(chars, src, srclen) == SubSeq(chars, src + 1, src + srclen)

\* Invokes the primitive on empty rows too.
StrictInvokes_Always(srclen) == TRUE

\* if (srclen > 0) of the Base64Decode branch.
StrictInvokes(srclen) == srclen > 0

\* if (srclen > 0) of the TryBase64Decode branch.
LenientInvokes(srclen) == srclen > 0

\* Throws in both decode modes.
ThrowsOnInvalid_AnyDecode(f) == f # "base64Encode"

\* The branch that throws on !outlen is the Base64Decode one only.
ThrowsOnInvalid(f) == f = "base64Decode"

\* Does not skip the terminator of the input row.
NextSource_NoTerminator(src, srclen) == src + srclen

\* source += srclen + 1;
NextSource(src, srclen) == src + srclen + 1

\* The terminator store is missing: the byte stays as allocated.
Terminator_Missing == Indeterminate

\* *dst_pos = '\0';
Terminator == 0

\* Does not step over the terminator it wrote.
NextDstPos_NoTerminator(pos, outlen) == pos + outlen

\* dst_pos += outlen; ...; dst_pos += 1;
NextDstPos(pos, outlen) == pos + outlen + 1

\* dst_data.resize(dst_pos - dst);
FinalSize(pos, res) == pos

\* Store bytes at offset pos of buf (stores past the end are not kept).
WriteAt(buf, pos, bytes) ==
    [i \in 1..Len(buf) |->
        IF i > pos /\ i <= pos + Len(bytes) THEN bytes[i - pos] ELSE buf[i]]

Resize(buf, n) ==
    [i \in 1..n |-> IF i <= Len(buf) THEN buf[i] ELSE Indeterminate]

\* --------------------------------------------------------------- actions
\* Lines 94-108: allocate and pre-size the destination column.
Prepare ==
    /\ pc = "start"
    /\ LET r == getBufferSize(func, StringLengthArg(src_chars, src_offsets),
                              StringCountArg(src_chars, src_offsets))
       IN  /\ reserve' = r
           /\ dst_data' = Resize(<< >>, r)
    /\ dst_offsets' = Resize(<< >>, input_rows_count)
    /\ source' = 0
    /\ dst_pos' = 0
    /\ src_offset_prev' = 0
    /\ row' = 0
    /\ pc' = "loop"
    /\ UNCHANGED << func, src_chars, src_offsets, input_rows_count, exception,
                    result, calls, stage, orig >>

\* Lines 164-172: the common tail of one loop iteration, on the buffer as
\* the branch left it.
RowTail(buf, pos, outlen, srclen) ==
    /\ source' = NextSource(source, srclen)
    /\ dst_data' = WriteAt(buf, pos + outlen, << Terminator >>)
    /\ dst_pos' = NextDstPos(pos, outlen)
    /\ dst_offsets' = [dst_offsets EXCEPT ![row + 1] = NextDstPos(pos, outlen)]
    /\ src_offset_prev' = src_offsets[row + 1]
    /\ row' = row + 1
    /\ pc' = "loop"

\* Lines 115-126: one row of base64Encode.
EncodeRow ==
    /\ pc = "loop"
    /\ func = "base64Encode"
    /\ LoopContinues(row, input_rows_count)
    /\ LET srclen == SrcLen(src_offsets, row, src_offset_prev)
           e == Tb64e(SourceBytes(src_chars, source, srclen))
       IN  /\ calls' = Append(calls, [row |-> row, srclen |-> srclen])
           /\ RowTail(WriteAt(dst_data, dst_pos, e.written), dst_pos, e.outlen, srclen)
    /\ UNCHANGED << func, src_chars, src_offsets, input_rows_count, reserve,
                    exception, result, stage, orig >>

\* Lines 127-160: one row of base64Decode / tryBase64Decode.
DecodeStep(invoked) ==
    LET srclen == SrcLen(src_offsets, row, src_offset_prev)
    IN  IF invoked THEN
            LET d == Tb64d(SourceBytes(src_chars, source, srclen))
                polluted == WriteAt(dst_data, dst_pos, d.written)
            IN  /\ calls' = Append(calls, [row |-> row, srclen |-> srclen])
                /\ IF d.outlen = 0 THEN
                       IF ThrowsOnInvalid(func) THEN
                           /\ exception' = << ThrownInput(src_chars, source, srclen) >>
                           /\ pc' = "error"
                           /\ UNCHANGED << source, dst_data, dst_pos, dst_offsets,
                                           src_offset_prev, row >>
                       ELSE
                           \* outlen = 0; dst_pos = savepoint; dst_pos[0] = 0;
                           LET savepoint == dst_pos
                           IN  /\ RowTail(WriteAt(polluted, savepoint, << 0 >>),
                                          savepoint, 0, srclen)
                               /\ UNCHANGED exception
                   ELSE
                       /\ RowTail(polluted, dst_pos, d.outlen, srclen)
                       /\ UNCHANGED exception
        ELSE
            /\ RowTail(dst_data, dst_pos, 0, srclen)
            /\ UNCHANGED << exception, calls >>

DecodeRow ==
    /\ pc = "loop"
    /\ func = "base64Decode"
    /\ LoopContinues(row, input_rows_count)
    /\ DecodeStep(StrictInvokes(SrcLen(src_offsets, row, src_offset_prev)))
    /\ UNCHANGED << func, src_chars, src_offsets, input_rows_count, reserve,
                    result, stage, orig >>

TryDecodeRow ==
    /\ pc = "loop"
    /\ func = "tryBase64Decode"
    /\ LoopContinues(row, input_rows_count)
    /\ DecodeStep(LenientInvokes(SrcLen(src_offsets, row, src_offset_prev)))
    /\ UNCHANGED << func, src_chars, src_offsets, input_rows_count, reserve,
                    result, stage, orig >>

\* Lines 175-177: truncate and return the column.
Finish ==
    /\ pc = "loop"
    /\ ~ LoopContinues(row, input_rows_count)
    /\ dst_data' = Resize(dst_data, FinalSize(dst_pos, reserve))
    /\ result' = << [chars |-> dst_data', offsets |-> dst_offsets] >>
    /\ pc' = "done"
    /\ UNCHANGED << func, src_chars, src_offsets, input_rows_count, reserve,
                    dst_offsets, source, dst_pos, src_offset_prev, row, exception,
                    calls, stage, orig >>

\* base64Decode(base64Encode(c)): the column returned by base64Encode is the
\* argument of a base64Decode call.
Chain ==
    /\ pc = "done"
    /\ func = "base64Encode"
    /\ stage = 1
    /\ func' = "base64Decode"
    /\ stage' = 2
    /\ src_chars' = result[1].chars
    /\ src_offsets' = result[1].offsets
    /\ input_rows_count' = Len(result[1].offsets)
    /\ pc' = "start"
    /\ reserve' = 0
    /\ dst_data' = << >>
    /\ dst_offsets' = << >>
    /\ source' = 0
    /\ dst_pos' = 0
    /\ src_offset_prev' = 0
    /\ row' = 0
    /\ exception' = << >>
    /\ result' = << >>
    /\ calls' = << >>
    /\ UNCHANGED orig

Next ==
    \/ Prepare
    \/ EncodeRow
    \/ DecodeRow
    \/ TryDecodeRow
    \/ Finish
    \/ Chain

Spec == Init /\ [][Next]_vars

TypeOK ==
    /\ func \in Modes
    /\ pc \in { "start", "loop", "done", "error" }
    /\ row \in 0..input_rows_count
    /\ stage \in { 1, 2 }
    /\ Len(result) <= 1
    /\ Len(exception) <= 1

\* ------------------------------------------------- vocabulary of the claims
InRows == RowsOf(src_chars, src_offsets)

\* Rows 1..row of the destination column, as written so far.
DstRow(i) == RowOf(dst_data, dst_offsets, i)

Invalid(s) == Len(s) > 0 /\ Tb64d(s).outlen = 0

\* What a row decodes to when invalid rows count as empty.
DecodedOrEmpty(s) == IF Tb64d(s).outlen = 0 THEN << >> ELSE Tb64d(s).written

HasInvalid == \E k \in 1..Len(InRows) : Invalid(InRows[k])

FirstInvalid == CHOOSE k \in 1..Len(InRows) :
                    /\ Invalid(InRows[k])
                    /\ \A j \in 1..(k - 1) : ~ Invalid(InRows[j])

HasZero(s) == \E j \in 1..Len(s) : s[j] = 0

Abc == << 97, 98, 99 >>
PollutingRow == << 89, 87, 74, 106, 33, 33, 33, 33 >>

\* --------------------------------------------------------------------- C1
\* C1: base64Decode on a column whose first invalid row is row k never
\* returns a column, never advances past row k, leaves the offsets of rows
\* k.. unassigned, and when it has thrown, the exception carries exactly the
\* bytes of row k.
C1_StrictAbortsOnFirstInvalid ==
    (func = "base64Decode" /\ HasInvalid) =>
        /\ pc # "done"
        /\ result = << >>
        /\ row <= FirstInvalid - 1
        /\ pc = "loop" =>
              \A j \in FirstInvalid..input_rows_count : dst_offsets[j] = Indeterminate
        /\ pc = "error" =>
              /\ row = FirstInvalid - 1
              /\ exception = << InRows[FirstInvalid] >>
              /\ \A j \in FirstInvalid..input_rows_count : dst_offsets[j] = Indeterminate

C1_Witness ==
    /\ func = "base64Decode"
    /\ pc = "error"
    /\ row >= 1
    /\ row + 1 < input_rows_count
    /\ exception = << InRows[row + 1] >>
    /\ InRows[row + 1] # InRows[1]
    /\ Len(InRows[1]) > 0

\* --------------------------------------------------------------------- C2
\* C2: tryBase64Decode never throws, and every row processed so far is empty
\* in the output if the primitive returned 0 on it (the cursor advanced by
\* the terminator only) and is the decode of the input row otherwise.
C2_LenientIsolatesFailures ==
    func = "tryBase64Decode" =>
        /\ pc # "error"
        /\ exception = << >>
        /\ pc \in { "loop", "done" } =>
              \A i \in 1..row :
                  /\ DstRow(i) = DecodedOrEmpty(InRows[i])
                  /\ Tb64d(InRows[i]).outlen = 0 =>
                        dst_offsets[i] = RowStart(dst_offsets, i) + 1
        /\ pc = "done" => row = input_rows_count

C2_Witness ==
    /\ func = "tryBase64Decode"
    /\ pc = "done"
    /\ input_rows_count = 3
    /\ InRows[2] = PollutingRow
    /\ RowsOf(result[1].chars, result[1].offsets) = << Abc, << >>, << 97 >> >>

\* --------------------------------------------------------------------- C3
\* C3: base64Decode applied to the column returned by base64Encode never
\* throws and returns the rows of the original column.
C3_RoundTrip ==
    stage = 2 =>
        /\ pc # "error"
        /\ pc = "done" =>
              RowsOf(result[1].chars, result[1].offsets) = RowsOf(orig.chars, orig.offsets)

C3_Witness ==
    /\ stage = 2
    /\ pc = "done"
    /\ Len(orig.offsets) = 3
    /\ \E i \in 1..3 : Len(RowOf(orig.chars, orig.offsets, i)) = 0
    /\ \E i \in 1..3 : HasZero(RowOf(orig.chars, orig.offsets, i))
    /\ RowsOf(result[1].chars, result[1].offsets) = RowsOf(orig.chars, orig.offsets)

\* --------------------------------------------------------------------- C4
\* C4: a returned column has as many offsets as the input column has rows,
\* and each of them was assigned by the loop.
C4_RowCountPreserved ==
    pc = "done" =>
        /\ Len(result) = 1
        /\ Len(result[1].offsets) = Len(src_offsets)
        /\ Len(result[1].offsets) = input_rows_count
        /\ \A i \in 1..Len(result[1].offsets) : result[1].offsets[i] # Indeterminate

C4_Witness ==
    /\ pc = "done"
    /\ func = "tryBase64Decode"
    /\ input_rows_count >= 2
    /\ Len(result[1].offsets) = input_rows_count
    /\ HasInvalid

\* --------------------------------------------------------------------- C5
\* C5: the size computed by getBufferSize is at least the write cursor after
\* every row, so the final resize never grows the buffer.
C5_BufferBound ==
    pc \in { "loop", "done" } =>
        /\ dst_pos <= reserve
        /\ Len(dst_data) <= reserve
        /\ pc = "done" => Len(result[1].chars) = dst_pos

C5_Witness ==
    /\ pc = "done"
    /\ func = "base64Encode"
    /\ input_rows_count >= 2
    /\ dst_pos = reserve
    /\ dst_pos > input_rows_count

\* --------------------------------------------------------------------- C6
\* C6: each row base64Encode has processed holds the encoding of exactly the
\* input row of the same index; encode(["abc", "", "a"]) is
\* ["YWJj", "", "YQ=="].
C6_EncodeRowWise ==
    func = "base64Encode" =>
        /\ pc \in { "loop", "done" } =>
              \A i \in 1..row : DstRow(i) = EncBlocks(InRows[i])
        /\ (pc = "done" /\ InRows = << Abc, << >>, << 97 >> >>) =>
              RowsOf(result[1].chars, result[1].offsets)
                  = << << 89, 87, 74, 106 >>, << >>, << 89, 81, 61, 61 >> >>
        /\ pc = "done" => row = input_rows_count

C6_Witness ==
    /\ func = "base64Encode"
    /\ pc = "done"
    /\ InRows = << Abc, << >>, << 97 >> >>
    /\ RowsOf(result[1].chars, result[1].offsets)
           = << << 89, 87, 74, 106 >>, << >>, << 89, 81, 61, 61 >> >>

\* --------------------------------------------------------------------- C7
\* C7: every processed input row of length 0 is an output row of length 0
\* (the cursor advanced by the terminator only); in the decode modes the
\* primitive was not invoked on it, and a thrown exception is never about an
\* empty row.
C7_EmptyRows ==
    /\ pc \in { "loop", "done" } =>
          \A i \in 1..row :
              Len(InRows[i]) = 0 =>
                  /\ Len(DstRow(i)) = 0
                  /\ dst_offsets[i] = RowStart(dst_offsets, i) + 1
                  /\ func # "base64Encode" =>
                        \A c \in 1..Len(calls) : calls[c].row # i - 1
    /\ pc = "error" =>
          /\ Len(InRows[row + 1]) > 0
          /\ \A i \in 1..row :
                 Len(InRows[i]) = 0 => \A c \in 1..Len(calls) : calls[c].row # i - 1

C7_Witness ==
    /\ func = "base64Decode"
    /\ pc = "done"
    /\ input_rows_count = 3
    /\ Len(InRows[1]) > 0
    /\ Len(InRows[2]) = 0
    /\ Len(InRows[3]) > 0
    /\ Len(calls) = 2
    /\ RowOf(result[1].chars, result[1].offsets, 2) = << >>

\* --------------------------------------------------------------------- C8
\* C8: a returned column has strictly increasing offsets, a data length equal
\* to its last offset (0 for no rows), and a zero byte at offsets[i] - 1.
C8_WellFormedOutput ==
    pc = "done" =>
        LET c == result[1]
            n == Len(c.offsets)
        IN  /\ \A i \in 1..n : c.offsets[i] >= RowStart(c.offsets, i) + 1
            /\ Len(c.chars) = (IF n = 0 THEN 0 ELSE c.offsets[n])
            /\ \A i \in 1..n :
                   /\ c.offsets[i] >= 1
                   /\ c.offsets[i] <= Len(c.chars)
                   /\ c.chars[c.offsets[i]] = 0
            /\ \A p \in 1..Len(c.chars) : c.chars[p] # Indeterminate

C8_Witness ==
    /\ pc = "done"
    /\ func = "tryBase64Decode"
    /\ input_rows_count >= 2
    /\ InRows[1] = PollutingRow
    /\ Len(InRows[2]) = 0
    /\ result[1].offsets[1] = 1
    /\ result[1].offsets[2] = 2

\* --------------------------------------------------------------------- C9
\* C9 as stated: no row content of a returned column contains a zero byte.
C9_NoZeroInContent ==
    pc = "done" =>
        \A i \in 1..Len(result[1].offsets) :
            ~ HasZero(RowOf(result[1].chars, result[1].offsets, i))

\* C9 amended: a returned column has a zero byte at every offsets[i] - 1; the
\* row contents returned by base64Encode contain no zero byte; the row
\* contents returned by the decode modes contain a zero byte exactly where the
\* bytes the primitive decoded for that row do.
C9_ZeroBytesAmended ==
    pc = "done" =>
        LET c == result[1]
        IN  \A i \in 1..Len(c.offsets) :
                /\ c.chars[c.offsets[i]] = 0
                /\ func = "base64Encode" => ~ HasZero(RowOf(c.chars, c.offsets, i))
                /\ func # "base64Encode" =>
                      LET d == DecodedOrEmpty(InRows[i])
                          o == RowOf(c.chars, c.offsets, i)
                      IN  /\ Len(o) = Len(d)
                          /\ \A j \in 1..Len(o) : (o[j] = 0) <=> (d[j] = 0)

C9_Witness ==
    /\ pc = "done"
    /\ func = "base64Decode"
    /\ stage = 1
    /\ input_rows_count >= 2
    /\ \E i \in 1..input_rows_count :
           HasZero(RowOf(result[1].chars, result[1].offsets, i))

\* -------------------------------------------------------------------- C10
\* C10: the string_length passed to getBufferSize is never smaller than
\* string_count, so no step of the computation wraps, and the size is at
\* least the number of rows.
C10_SizingNoWrap ==
    pc # "start" =>
        LET len == StringLengthArg(src_chars, src_offsets)
            cnt == StringCountArg(src_chars, src_offsets)
            d == IF func = "base64Encode" THEN 3 ELSE 4
            m == IF func = "base64Encode" THEN 4 ELSE 3
        IN  /\ len - cnt >= 0
            /\ cnt = input_rows_count
            /\ reserve = ((len - cnt) \div d + cnt) * m + cnt
            /\ reserve >= input_rows_count
            /\ pc = "done" => reserve >= Len(result[1].chars)

C10_Witness ==
    /\ pc = "done"
    /\ input_rows_count >= 2
    /\ Len(src_chars) = input_rows_count
    /\ dst_pos = input_rows_count
    /\ reserve >= dst_pos

====
